---- MODULE Spec2Model ----
(***************************************************************************)
(* Model of rust-core: SupplyChainGraph (supply_chain.rs) and the provider *)
(* rotation of StarknetClient (starknet_client.rs).                        *)
(***************************************************************************)
EXTENDS Integers, Sequences, FiniteSets, TLC

VARIABLES recipes, adjacency_list, call, adds,
          twin, regs, twinCall,
          client, providers, current_index, tasks, tickets

graphVars  == <<recipes, adjacency_list, call, adds>>
twinVars   == <<twin, regs, twinCall>>
clientVars == <<client, providers, current_index, tasks, tickets>>
vars       == <<graphVars, twinVars, clientVars>>

(***************************************************************************)
(* Bounds of the model.                                                    *)
(***************************************************************************)
\* number of add_recipe calls explored on one graph
MaxAdds == 3
\* number of add_recipe calls explored on the pair of graphs
MaxRegs == 2
\* width of the modelled usize counter, in bits
UsizeBits == 3
\* number of concurrent callers of the client
NumTasks == 2
\* number of environment keys scanned by detect_rpc_urls that are modelled
NumEnvKeys == 3
\* largest multiplicity tried when reading a path as a plan
MaxMult == 3

(***************************************************************************)
(* supply_chain.rs: data                                                   *)
(***************************************************************************)
RecipeNames == {"Smelt", "RefineA", "RefineB"}
Resources   == {"Ore", "Bar", "Fuel"}
\* a resource name that no recipe value mentions
Unregistered == "Unobtainium"
Targets == Resources \cup {Unregistered}

\* HashMap<String, u32> with no entry
EmptyMap == [r \in {} |-> 0]
Map1(k, v) == [r \in {k} |-> v]
Map2(k1, v1, k2, v2) == [r \in {k1, k2} |-> IF r = k1 THEN v1 ELSE v2]

\* struct Recipe
Recipe(i, o, t) == [inputs |-> i, outputs |-> o, process_time_seconds |-> t]

\* The recipe values handed to add_recipe.  add_recipe takes any Recipe, so
\* the set also holds values with no output, a zero quantity, or the same
\* resource as input and output.
RecipeValues ==
    { Recipe(Map1("Ore", 2), Map1("Bar", 1), 10),
      Recipe(EmptyMap, Map1("Fuel", 1), 5),
      Recipe(EmptyMap, Map1("Fuel", 1), 20),
      Recipe(Map1("Bar", 1), Map1("Ore", 1), 10),
      Recipe(Map1("Ore", 1), Map2("Bar", 1, "Fuel", 1), 5),
      Recipe(Map1("Ore", 1), EmptyMap, 5),
      Recipe(Map1("Ore", 0), Map1("Bar", 1), 5),
      Recipe(Map1("Ore", 1), Map1("Ore", 1), 5) }

\* SupplyChainGraph::new
NewGraph == [recipes |-> [n \in {} |-> 0], adjacency_list |-> [r \in {} |-> <<>>]]

\* the orders in which a HashMap may iterate over the key set S
RECURSIVE KeyOrders(_)
KeyOrders(S) ==
    IF S = {} THEN {<<>>}
    ELSE UNION { { <<k>> \o rest : rest \in KeyOrders(S \ {k}) } : k \in S }

\* HashMap::insert
MapInsert(m, k, v) == [x \in (DOMAIN m) \cup {k} |-> IF x = k THEN v ELSE m[x]]

\* the push replaced by insert(0, name): the newest producer comes first
EntryPushFront(adj, output, name) ==
    MapInsert(adj, output,
              <<name>> \o (IF output \in DOMAIN adj THEN adj[output] ELSE <<>>))

\* adjacency_list.entry(output).or_insert_with(Vec::new).push(name)
EntryPush(adj, output, name) ==
    MapInsert(adj, output,
              Append(IF output \in DOMAIN adj THEN adj[output] ELSE <<>>, name))

\* the for loop of add_recipe over recipe.outputs.keys(), in iteration order
RECURSIVE PushOutputs(_, _, _)
PushOutputs(adj, order, name) ==
    IF order = <<>> THEN adj
    ELSE PushOutputs(EntryPush(adj, Head(order), name), Tail(order), name)

\* SupplyChainGraph::add_recipe
add_recipe(g, name, recipe, order) ==
    [recipes        |-> MapInsert(g.recipes, name, recipe),
     adjacency_list |-> PushOutputs(g.adjacency_list, order, name)]

\* the value of a call that returns ()
Unit == [kind |-> "Unit", path |-> <<>>]

\* Option<Vec<String>>
None == [kind |-> "None", path |-> <<>>]
Some(v) == [kind |-> "Some", path |-> v]

\* SupplyChainGraph::find_production_path
find_production_path(g, target_resource) ==
    IF target_resource \notin DOMAIN g.adjacency_list
    THEN None
    ELSE Some(g.adjacency_list[target_resource])

(***************************************************************************)
(* One graph: the state after new(), and its two operations.               *)
(***************************************************************************)
graph == [recipes |-> recipes, adjacency_list |-> adjacency_list]

NoCall == [op |-> "new", name |-> "", recipe |-> Recipe(EmptyMap, EmptyMap, 0),
           target |-> "", ret |-> Unit]

GraphInit ==
    /\ recipes = NewGraph.recipes
    /\ adjacency_list = NewGraph.adjacency_list
    /\ call = NoCall
    /\ adds = 0

AddRecipe ==
    /\ adds < MaxAdds
    /\ \E name \in RecipeNames, recipe \in RecipeValues :
         \E order \in KeyOrders(DOMAIN recipe.outputs) :
           LET g == add_recipe(graph, name, recipe, order) IN
             /\ recipes' = g.recipes
             /\ adjacency_list' = g.adjacency_list
             /\ call' = [op |-> "add_recipe", name |-> name, recipe |-> recipe,
                         target |-> "", ret |-> Unit]
    /\ adds' = adds + 1
    /\ UNCHANGED <<twinVars, clientVars>>

FindProductionPath ==
    /\ \E target \in Targets :
         call' = [op |-> "find_production_path", name |-> "",
                  recipe |-> Recipe(EmptyMap, EmptyMap, 0), target |-> target,
                  ret |-> find_production_path(graph, target)]
    /\ UNCHANGED <<recipes, adjacency_list, adds, twinVars, clientVars>>

(***************************************************************************)
(* Vocabulary of the planning contract, read off the stored recipes.       *)
(***************************************************************************)
Range(f) == { f[x] : x \in DOMAIN f }

\* a recipe the repository contract accepts: at least one output, no zero
\* quantity, no resource both required and produced
Valid(recipe) ==
    /\ DOMAIN recipe.outputs # {}
    /\ \A r \in DOMAIN recipe.inputs : recipe.inputs[r] > 0
    /\ \A r \in DOMAIN recipe.outputs : recipe.outputs[r] > 0
    /\ (DOMAIN recipe.inputs) \cap (DOMAIN recipe.outputs) = {}

\* the OR-group of a resource: the stored recipes whose outputs include it
Producers(resource) ==
    { n \in DOMAIN recipes : resource \in DOMAIN recipes[n].outputs }

\* the recipe names the index lists for a resource
Indexed(resource) ==
    IF resource \in DOMAIN adjacency_list THEN Range(adjacency_list[resource]) ELSE {}

\* the resource appears in some stored recipe's inputs or outputs
Registered(resource) ==
    \E n \in DOMAIN recipes :
        resource \in (DOMAIN recipes[n].inputs) \cup (DOMAIN recipes[n].outputs)

\* a repository holding only valid recipes, each name listed once per output
CleanRepository ==
    /\ \A n \in DOMAIN recipes : Valid(recipes[n])
    /\ \A r \in Resources : Indexed(r) = Producers(r)
    /\ \A r \in DOMAIN adjacency_list :
         Cardinality(Range(adjacency_list[r])) = Len(adjacency_list[r])

Found == call.op = "find_production_path"
Succeeded == Found /\ call.ret.kind = "Some"

\* the quantity of a resource in a map, 0 when it has no entry
Qty(m, r) == IF r \in DOMAIN m THEN m[r] ELSE 0

\* Applying the steps (recipe name, multiplicity) in order: each step's inputs
\* are covered by the inventory plus the cumulative output so far, and the
\* cumulative output ends with at least qty of the target.
RECURSIVE Feasible(_, _, _, _, _)
Feasible(steps, inventory, produced, target, qty) ==
    IF steps = <<>> THEN produced[target] >= qty
    ELSE LET name == Head(steps)[1]
             m == Head(steps)[2]
             recipe == recipes[name]
         IN /\ \A r \in DOMAIN recipe.inputs :
                  Qty(inventory, r) + produced[r] >= m * recipe.inputs[r]
            /\ Feasible(Tail(steps), inventory,
                        [r \in Resources |-> produced[r] + m * Qty(recipe.outputs, r)],
                        target, qty)

Nothing == [r \in Resources |-> 0]

\* C1: whenever planning succeeds on a clean repository, the returned path,
\* read as a plan with some multiplicity per step and started from nothing
\* (the call passes no inventory), is feasible for at least one unit of the
\* target.
PlanIsFeasible ==
    (Succeeded /\ CleanRepository /\ call.target \in Resources) =>
        \E mult \in [1..Len(call.ret.path) -> 1..MaxMult] :
            Feasible([i \in 1..Len(call.ret.path) |-> <<call.ret.path[i], mult[i]>>],
                     EmptyMap, Nothing, call.target, 1)

\* rank of a recipe name in lexicographic order
NameRank(n) == CASE n = "RefineA" -> 1 [] n = "RefineB" -> 2 [] n = "Smelt" -> 3

\* the cheapest branch of an OR-group whose branches need no input: lowest
\* processing time, then (all being one step) the smallest name
Cheapest(P) ==
    CHOOSE n \in P : \A m \in P \ {n} :
        \/ recipes[n].process_time_seconds < recipes[m].process_time_seconds
        \/ /\ recipes[n].process_time_seconds = recipes[m].process_time_seconds
           /\ NameRank(n) < NameRank(m)

\* C2: when the target has several producing recipes, all needing no input
\* (so every branch succeeds), the plan is the single cheapest branch.
PlanIsCheapestBranch ==
    (Found /\ CleanRepository /\ call.target \in Resources
       /\ Cardinality(Producers(call.target)) >= 2
       /\ \A n \in Producers(call.target) : DOMAIN recipes[n].inputs = {}) =>
        /\ call.ret.kind = "Some"
        /\ call.ret.path = <<Cheapest(Producers(call.target))>>

\* recipe a requires x, produced only by b; b requires y, produced only by a
MutualCycle(a, b, x, y) ==
    /\ a # b
    /\ a \in DOMAIN recipes /\ b \in DOMAIN recipes
    /\ x \in DOMAIN recipes[a].inputs /\ Producers(x) = {b}
    /\ y \in DOMAIN recipes[b].inputs /\ Producers(y) = {a}

\* C3: planning for either resource of a two-recipe cycle fails with
\* CycleError; it returns no plan.
CycleIsReported ==
    (Found /\ CleanRepository
       /\ \E a, b \in RecipeNames, x, y \in Resources :
            MutualCycle(a, b, x, y) /\ call.target \in {x, y}) =>
        call.ret.kind = "CycleError"

\* C4: planning for a registered resource with an empty OR-group, from an
\* empty inventory, fails with UnproducibleError.
LeafIsUnproducible ==
    (Found /\ CleanRepository /\ Registered(call.target)
       /\ Producers(call.target) = {}) =>
        call.ret.kind = "UnproducibleError"

\* C5: planning for a resource that no stored recipe mentions fails with
\* NotFoundError.
UnknownIsNotFound ==
    (Found /\ CleanRepository /\ ~Registered(call.target)) =>
        call.ret.kind = "NotFoundError"

\* C6: the producer index is never stale: for every resource it lists exactly
\* the stored recipes whose outputs include the resource.
IndexNeverStale ==
    /\ \A r \in Resources : Indexed(r) = Producers(r)
    /\ \A r \in DOMAIN adjacency_list : Range(adjacency_list[r]) \subseteq DOMAIN recipes

Adding == call'.op = "add_recipe" /\ adds' = adds + 1

\* C7: registering, under the same name, the recipe value already stored
\* leaves the recipe set and the producer index as they were.
RegisterIsIdempotent ==
    [][(/\ Adding
        /\ call'.name \in DOMAIN recipes
        /\ recipes[call'.name] = call'.recipe)
         => (recipes' = recipes /\ adjacency_list' = adjacency_list)]_vars

\* C8: registering a malformed recipe fails with ValidationError and leaves
\* the recipe set and the producer index unchanged.
MalformedIsRejected ==
    [][(Adding /\ ~Valid(call'.recipe))
         => (/\ call'.ret.kind = "ValidationError"
             /\ recipes' = recipes
             /\ adjacency_list' = adjacency_list)]_vars


(***************************************************************************)
(* Two graphs built by the same sequence of add_recipe calls.  Each graph  *)
(* iterates over recipe.outputs in an order of its own (HashMap order).    *)
(***************************************************************************)
NoTwinCall == [target |-> "", rets |-> <<None, None>>]

TwinInit ==
    /\ twin = <<NewGraph, NewGraph>>
    /\ regs = <<>>
    /\ twinCall = NoTwinCall

TwinAddRecipe ==
    /\ Len(regs) < MaxRegs
    /\ \E name \in RecipeNames, recipe \in RecipeValues :
         \E order1, order2 \in KeyOrders(DOMAIN recipe.outputs) :
           /\ twin' = <<add_recipe(twin[1], name, recipe, order1),
                        add_recipe(twin[2], name, recipe, order2)>>
           /\ regs' = Append(regs, [name |-> name, recipe |-> recipe,
                                    orders |-> <<order1, order2>>])
    /\ UNCHANGED <<twinCall, graphVars, clientVars>>

TwinFindProductionPath ==
    /\ \E target \in Targets :
         twinCall' = [target |-> target,
                      rets |-> <<find_production_path(twin[1], target),
                                 find_production_path(twin[2], target)>>]
    /\ UNCHANGED <<twin, regs, graphVars, clientVars>>

\* the names registered with the resource among their outputs, in call order
RECURSIVE InsertionOrder(_, _)
InsertionOrder(log, resource) ==
    IF log = <<>> THEN <<>>
    ELSE LET rest == InsertionOrder(SubSeq(log, 1, Len(log) - 1), resource)
             last == log[Len(log)]
         IN IF resource \in DOMAIN last.recipe.outputs
            THEN Append(rest, last.name) ELSE rest

\* C9: two graphs built by the same registrations answer every query alike,
\* and the producers of a resource come back in registration order.
PlanningIsDeterministic ==
    /\ twinCall.rets[1] = twinCall.rets[2]
    /\ \A i \in 1..2, r \in Targets :
         find_production_path(twin[i], r) =
            IF InsertionOrder(regs, r) = <<>> THEN None
            ELSE Some(InsertionOrder(regs, r))

\* both graphs answered a query with two producers, after a registration in
\* which they iterated over the outputs in different orders
DeterministicWitness ==
    /\ twinCall.rets[1].kind = "Some"
    /\ Len(twinCall.rets[1].path) >= 2
    /\ twinCall.rets[1].path[1] # twinCall.rets[1].path[2]
    /\ \E k \in 1..Len(regs) : regs[k].orders[1] # regs[k].orders[2]

(***************************************************************************)
(* starknet_client.rs: StarknetClient::new and the provider rotation       *)
(***************************************************************************)
UsizeRange == 2 ^ UsizeBits

EnvKeys == 1..NumEnvKeys
\* what an environment variable may hold: nothing, blanks, text that is no
\* URL, a URL
EnvValues == {"unset", "blank", "bad", "url"}
\* the rpc_url argument: absent, text that is no URL, a URL
RpcUrlArgs == {"absent", "bad", "url"}

Ok(v) == [ok |-> TRUE, value |-> v]
Err == [ok |-> FALSE, value |-> <<>>]

\* StarknetClient::detect_rpc_urls: the keys holding a URL, in key order
detect_rpc_urls(env) ==
    LET urls == SelectSeq([k \in EnvKeys |-> k], LAMBDA k : env[k] = "url")
    IN IF urls = <<>> THEN Err ELSE Ok(urls)

\* StarknetClient::new: the provider list, or an error.  A provider built from
\* the argument is named 0, one built from an environment key by the key.
new(rpc_url, env, limiter_ok) ==
    LET url_strings == IF rpc_url # "absent" THEN Ok(<<0>>) ELSE detect_rpc_urls(env)
    IN IF ~url_strings.ok THEN Err
       ELSE IF rpc_url = "bad" THEN Err
       ELSE IF url_strings.value = <<>> THEN Err
       ELSE IF ~limiter_ok THEN Err
       ELSE Ok(url_strings.value)

\* the new value of current_index after fetch_add(1, Relaxed), which wraps
FetchAdd(counter) == (counter + 1) % UsizeRange

\* the modulus off by one: idx % (self.providers.len() + 1)
ProviderIndexOffByOne(idx, len) == idx % (len + 1)

\* idx % self.providers.len()
ProviderIndex(idx, len) == idx % len

Ops == {"get_network_status", "get_eth_balance", "batch_query"}
IdleTask == [pc |-> "idle", op |-> "", provider |-> 0, ret |-> "none"]

ClientInit ==
    /\ client = "none"
    /\ providers = <<>>
    /\ current_index = 0
    /\ tasks = [t \in 1..NumTasks |-> IdleTask]
    /\ tickets = <<>>

New ==
    /\ client = "none"
    /\ \E rpc_url \in RpcUrlArgs, env \in [EnvKeys -> EnvValues], limiter_ok \in BOOLEAN :
         LET r == new(rpc_url, env, limiter_ok) IN
           /\ client' = IF r.ok THEN "ok" ELSE "err"
           /\ providers' = r.value
    /\ current_index' = 0
    /\ UNCHANGED <<tasks, tickets, graphVars, twinVars>>

\* a caller enters one of the three calls and awaits limiter.check()
Begin(t) ==
    /\ client = "ok"
    /\ tasks[t].pc = "idle"
    /\ \E op \in Ops :
         tasks' = [tasks EXCEPT ![t] = [pc |-> "limiter", op |-> op,
                                        provider |-> 0, ret |-> "none"]]
    /\ UNCHANGED <<client, providers, current_index, tickets, graphVars, twinVars>>

\* the most recent counter values handed out, oldest first
Recent(seq) ==
    IF Len(seq) > NumEnvKeys THEN SubSeq(seq, Len(seq) - NumEnvKeys + 1, Len(seq)) ELSE seq

\* limiter.check() returns; next_provider takes the counter value in one
\* atomic step, then the call runs to its next await or to its return
NextProvider(t) ==
    /\ tasks[t].pc = "limiter"
    /\ LET idx == current_index
           p == ProviderIndex(idx, Len(providers))
       IN /\ current_index' = FetchAdd(current_index)
          /\ tickets' = Recent(Append(tickets, idx))
          /\ \/ /\ tasks[t].op = "batch_query"
                /\ tasks' = [tasks EXCEPT ![t] = [pc |-> "idle", op |-> @.op,
                                                  provider |-> p, ret |-> "Ok"]]
             \/ /\ tasks[t].op = "get_eth_balance"
                /\ \E address_ok \in BOOLEAN :
                     tasks' = [tasks EXCEPT ![t] =
                                 IF address_ok
                                 THEN [pc |-> "request", op |-> @.op,
                                       provider |-> p, ret |-> "none"]
                                 ELSE [pc |-> "idle", op |-> @.op,
                                       provider |-> p, ret |-> "Err"]]
             \/ /\ tasks[t].op = "get_network_status"
                /\ tasks' = [tasks EXCEPT ![t] = [pc |-> "request", op |-> @.op,
                                                  provider |-> p, ret |-> "none"]]
    /\ UNCHANGED <<client, providers, graphVars, twinVars>>

\* the provider answers, or fails, and the call returns
Respond(t) ==
    /\ tasks[t].pc = "request"
    /\ \E ret \in {"Ok", "Err"} :
         tasks' = [tasks EXCEPT ![t] = [pc |-> "idle", op |-> @.op,
                                        provider |-> @.provider, ret |-> ret]]
    /\ UNCHANGED <<client, providers, current_index, tickets, graphVars, twinVars>>

\* every call has selected an index inside the provider list
IndexInRange ==
    \A t \in 1..NumTasks :
        tasks[t].pc = "request" =>
            tasks[t].provider \in 0..(Len(providers) - 1)

\* successive calls took successive counter values, none lost or repeated
TicketsDistinct ==
    /\ \A i \in 1..(Len(tickets) - 1) : tickets[i + 1] = (tickets[i] + 1) % UsizeRange
    /\ \A i, j \in 1..Len(tickets) : i # j => tickets[i] # tickets[j]
    /\ tickets # <<>> => current_index = (tickets[Len(tickets)] + 1) % UsizeRange

\* the latest providers.len() counter values, once that many were taken
Window ==
    SubSeq(tickets, Len(tickets) - Len(providers) + 1, Len(tickets))

\* the counter values select every provider exactly once
SelectsEachOnce(w) ==
    /\ { ProviderIndex(w[i], Len(providers)) : i \in 1..Len(w) }
         = 0..(Len(providers) - 1)
    /\ \A i, j \in 1..Len(w) :
         i # j => ProviderIndex(w[i], Len(providers)) # ProviderIndex(w[j], Len(providers))

\* the window of counter values passes from the largest usize to 0
SpansWrap(w) == \E i \in 1..(Len(w) - 1) : w[i + 1] < w[i]

\* C10 as stated: in a constructed client every selected index is in range,
\* calls take distinct counter values, and any providers.len() consecutive
\* counter values select every provider exactly once, wrap-around included.
RotationAcrossWrap ==
    client = "ok" =>
        /\ IndexInRange
        /\ TicketsDistinct
        /\ Len(tickets) >= Len(providers) => SelectsEachOnce(Window)

\* C10 amended: the same, except that a window that spans the wrap-around
\* selects every provider exactly once only when providers.len() divides the
\* range of the counter.
RotationWithinRange ==
    client = "ok" =>
        /\ IndexInRange
        /\ TicketsDistinct
        /\ (/\ Len(tickets) >= Len(providers)
            /\ (~SpansWrap(Window) \/ UsizeRange % Len(providers) = 0))
              => SelectsEachOnce(Window)

\* two providers, a call in flight, and the last two counter values span the
\* wrap-around
RotationWitness ==
    /\ client = "ok"
    /\ Len(providers) = 2
    /\ \E t \in 1..NumTasks : tasks[t].pc = "request"
    /\ Len(tickets) >= 2
    /\ SpansWrap(Window)

(***************************************************************************)
(* Specifications                                                          *)
(***************************************************************************)
Init == GraphInit /\ TwinInit /\ ClientInit

Next == AddRecipe \/ FindProductionPath
Spec == Init /\ [][Next]_vars

TwinNext == TwinAddRecipe \/ TwinFindProductionPath
SpecTwin == Init /\ [][TwinNext]_vars

ClientNext == New \/ \E t \in 1..NumTasks : Begin(t) \/ NextProvider(t) \/ Respond(t)
SpecClient == Init /\ [][ClientNext]_vars
====
